---- MODULE Spec2Model ----
(***************************************************************************)
(* A1/q1/generate_transactions.py: the synthetic transactional-dataset     *)
(* generator.  One run of main() is modelled as a sequential state machine *)
(* whose program counter pc walks through main, build_clusters and         *)
(* generate_transaction.  Every call on the random source (randint,        *)
(* random, sample, choices) is a nondeterministic choice over the values   *)
(* the call can return; a call the random module would reject (randint     *)
(* with low > high, sample of more items than the population holds,        *)
(* choices on an empty population or with a weight list of another length) *)
(* raises, which ends the run in pc = "crash".                             *)
(*                                                                         *)
(* Text is a sequence of one-character strings; a token, and so an item,   *)
(* is a non-empty sequence of characters; a transaction is a sequence of   *)
(* items; a line of the output file is a sequence of characters.           *)
(***************************************************************************)
EXTENDS Integers, Sequences, FiniteSets, TLC

VARIABLES
    pc,              \* position in main
    item_spec,       \* sys.argv[1], resolved to the text load_items tokenizes
    count_arg,       \* sys.argv[2]
    num_tx,          \* main: num_tx
    items,           \* main: items (the universe)
    clusters,        \* build_clusters: clusters (each cluster as the set it holds)
    cluster_weights, \* build_clusters: weights, as the denominators i + 1
    item_weights,    \* main: item_weights, as the ranks i + 1 of 1 / (i + 1) ** alpha
    seen,            \* main: seen
    transactions,    \* main: transactions
    max_attempts,    \* main: max_attempts
    attempts,        \* main: attempts
    length,          \* generate_transaction: length
    pick,            \* generate_transaction: pick (0 when no cluster seed was drawn)
    chosen,          \* generate_transaction: chosen
    tx,              \* main: tx, the last transaction generate_transaction returned
    calls,           \* number of generate_transaction calls that returned
    warned,          \* the shortfall warning was printed
    out_file,        \* the output file: Absent, or the lines written
    exit_code        \* NotExited, 0 or 1

vars == <<pc, item_spec, count_arg, num_tx, items, clusters, cluster_weights,
          item_weights, seen, transactions, max_attempts, attempts, length,
          pick, chosen, tx, calls, warned, out_file, exit_code>>

-----------------------------------------------------------------------------
(* Bounds of the model *)

\* largest universe size of an input item spec
MaxN == 6
\* largest transaction count given on the command line
MaxCount == 2
\* rng.sample(items, sz) in build_clusters is enumerated as the runs of sz
\* consecutive universe items (cyclically) starting at offsets 0..MaxOffset;
\* every other draw is enumerated in full
MaxOffset == 0
\* largest universe size at which choose_length and the cluster shape are evaluated
MaxProbeN == 60

(* Program constants *)

RetryFactor == 30
SmallUniverse == 5
MinClusterUniverse == 4
MinClusters == 3
MaxClusters == 10
ClusterDivisor == 5
MinClusterSize == 3
MaxClusterSize == 12

\* out_file before the file is opened: no real line is the string "absent"
Absent == <<<<"absent">>>>
NotExited == -1

Max(a, b) == IF a >= b THEN a ELSE b
Min(a, b) == IF a <= b THEN a ELSE b

-----------------------------------------------------------------------------
(* Inputs *)

Letters == <<"a", "b", "c", "d", "e", "f", "g", "h">>

\* An item spec naming n distinct items, highest letter first, separated by
\* commas and spaces in turn, with the first item repeated at the end.
RECURSIVE SpecBody(_)
SpecBody(i) ==
    IF i = 0 THEN <<>>
    ELSE <<Letters[i]>> \o (IF i % 2 = 0 THEN <<",">> ELSE <<" ">>) \o SpecBody(i - 1)

ItemSpecOf(n) == IF n = 0 THEN <<>> ELSE SpecBody(n) \o <<",", Letters[n]>>

ItemSpecs ==
    {ItemSpecOf(n) : n \in 0..MaxN}
        \cup {<<",", " ", ",">>, <<"a", "b", ",", " ", "a", "b", " ">>}

\* sys.argv[2]: a string int() rejects, or the decimal text of an integer
CountArgs ==
    {[parses |-> FALSE, value |-> 0]}
        \cup {[parses |-> TRUE, value |-> v] : v \in -1..MaxCount}

-----------------------------------------------------------------------------
(* load_items *)

\* text.replace(",", " ")
ReplaceCommas(text) ==
    [i \in 1..Len(text) |-> IF text[i] = "," THEN " " ELSE text[i]]

\* str.split(): the maximal runs of non-whitespace characters
RECURSIVE SplitFrom(_, _, _, _)
SplitFrom(text, i, cur, acc) ==
    IF i > Len(text)
    THEN IF cur = <<>> THEN acc ELSE Append(acc, cur)
    ELSE IF text[i] = " "
         THEN SplitFrom(text, i + 1, <<>>, IF cur = <<>> THEN acc ELSE Append(acc, cur))
         ELSE SplitFrom(text, i + 1, Append(cur, text[i]), acc)

Split(text) == SplitFrom(text, 1, <<>>, <<>>)

InSeq(x, s) == \E j \in 1..Len(s) : s[j] = x

\* the loop "for t in tokens: if t not in seen: ..."
RECURSIVE Dedup(_, _, _)
Dedup(tokens, i, acc) ==
    IF i > Len(tokens) THEN acc
    ELSE Dedup(tokens, i + 1, IF InSeq(tokens[i], acc) THEN acc ELSE Append(acc, tokens[i]))

\* load_items without the replacement of commas
load_items_KeepCommas(spec) == Dedup(Split(spec), 1, <<>>)

load_items(spec) == Dedup(Split(ReplaceCommas(spec)), 1, <<>>)

-----------------------------------------------------------------------------
(* The random source *)

RandintOk(a, b) == a <= b
Randint(a, b) == a..b

\* rng.sample(population, k) on a population of distinct elements, as the set drawn
SampleOk(population, k) == 0 <= k /\ k <= Cardinality(population)
Sample(population, k) == {s \in SUBSET population : Cardinality(s) = k}

\* rng.choices(population, weights=weights, k=1)[0], all weights positive
ChoicesOk(population, weights) ==
    Len(population) > 0 /\ Len(weights) = Len(population)
Choices(population, weights) == 1..Len(population)

\* rng.random(), in hundredths
RandomFractions == {0, 9, 10, 69, 70, 99}

-----------------------------------------------------------------------------
(* build_clusters *)

NumClusters(n) == Max(MinClusters, Min(MaxClusters, n \div ClusterDivisor))

\* max_sz without the cap at the universe size
MaxSz_Uncapped(n) == MaxClusterSize

MaxSz(n) ==
    LET max_sz == Min(MaxClusterSize, n)
    IN  IF max_sz < MinClusterSize THEN MinClusterSize ELSE max_sz

ItemSet(its) == {its[j] : j \in 1..Len(its)}

\* the outcomes of rng.sample(items, sz) that are enumerated
SampleItems(its, sz) ==
    {{its[((o + j) % Len(its)) + 1] : j \in 0..(sz - 1)} : o \in 0..Min(MaxOffset, Len(its) - 1)}

\* lines 44-49, one pass of "for _ in range(k)": the cluster drawn, or the
\* draw that raises
ClusterOutcomes(its) ==
    IF ~RandintOk(MinClusterSize, MaxSz(Len(its)))
    THEN {[ok |-> FALSE, cluster |-> {}]}
    ELSE UNION {IF SampleOk(ItemSet(its), sz)
                THEN {[ok |-> TRUE, cluster |-> s] : s \in SampleItems(its, sz)}
                ELSE {[ok |-> FALSE, cluster |-> {}]}
                    : sz \in Randint(MinClusterSize, MaxSz(Len(its)))}

Weights(cl) == [i \in 1..Len(cl) |-> i]

-----------------------------------------------------------------------------
(* choose_length *)

choose_length(n_items) ==
    IF n_items <= SmallUniverse THEN {Max(2, n_items)}
    ELSE UNION {IF r < 10 THEN {Min(n_items, v) : v \in Randint(3, 5)}
                ELSE IF r < 70 THEN {Min(n_items, v) : v \in Randint(6, 12)}
                ELSE {Min(n_items, v) : v \in Randint(12, 20)}
                    : r \in RandomFractions}

-----------------------------------------------------------------------------
(* generate_transaction *)

MinPick(cluster) == IF Cardinality(cluster) >= 2 THEN 2 ELSE 1

\* max_pick without the cap at half the target length
MaxPick_NoLengthCap(cluster, len) == Max(MinPick(cluster), Cardinality(cluster))

MaxPick(cluster, len) ==
    Max(MinPick(cluster), Min(Cardinality(cluster), Max(2, len \div 2)))

\* "if clusters:": the outcomes of the cluster seed, each the pick count and the
\* items put into chosen
SeedOutcomes(cl, cw, len) ==
    IF cl = <<>> THEN {[ok |-> TRUE, pick |-> 0, chosen |-> {}]}
    ELSE IF ~ChoicesOk(cl, cw) THEN {[ok |-> FALSE, pick |-> 0, chosen |-> {}]}
    ELSE UNION {
        LET cluster == cl[c]
            min_pick == MinPick(cluster)
            max_pick == MaxPick(cluster, len)
        IN  IF ~RandintOk(min_pick, max_pick)
            THEN {[ok |-> FALSE, pick |-> 0, chosen |-> {}]}
            ELSE UNION {
                IF ~SampleOk(cluster, p)
                THEN {[ok |-> FALSE, pick |-> p, chosen |-> {}]}
                ELSE {[ok |-> TRUE, pick |-> p, chosen |-> s] : s \in Sample(cluster, p)}
                    : p \in Randint(min_pick, max_pick)}
            : c \in Choices(cl, cw)}

Reverse(s) == [i \in 1..Len(s) |-> s[Len(s) + 1 - i]]

\* the chosen items returned against the universe order
OrderedBy_Reversed(its, ch) == Reverse(SelectSeq(its, LAMBDA it : it \in ch))

\* "return [it for it in items if it in chosen]"
OrderedBy(its, ch) == SelectSeq(its, LAMBDA it : it \in ch)

-----------------------------------------------------------------------------
(* main *)

\* " ".join(tx)
RECURSIVE Join(_)
Join(t) ==
    IF t = <<>> THEN <<>>
    ELSE IF Len(t) = 1 THEN t[1]
    ELSE t[1] \o <<" ">> \o Join(Tail(t))

Lines(txs) == [i \in 1..Len(txs) |-> Join(txs[i])]

\* the seen test left out
IsDuplicate_Never(key, seenSet) == FALSE

\* "if key in seen: continue"
IsDuplicate(key, seenSet) == key \in seenSet

\* the budget test off by one
LoopCondition_OffByOne == Len(transactions) < num_tx /\ attempts <= max_attempts

\* "while len(transactions) < num_tx and attempts < max_attempts"
LoopCondition == Len(transactions) < num_tx /\ attempts < max_attempts

\* the shortfall test as "differs from"
Shortfall_NotEqual == Len(transactions) # num_tx

\* "if len(transactions) < num_tx:"
Shortfall == Len(transactions) < num_tx

\* The command line.  A universe whose target length is drawn at random
\* (more than SmallUniverse items) is run for a count of at most 1: with a
\* larger count the retry loop over all pairs of such transactions is out of
\* reach of the search.
Init ==
    /\ pc = "parse_count"
    /\ item_spec \in ItemSpecs
    /\ count_arg \in CountArgs
    /\ Len(load_items(item_spec)) > SmallUniverse => count_arg.value <= 1
    /\ num_tx = 0
    /\ items = <<>>
    /\ clusters = <<>>
    /\ cluster_weights = <<>>
    /\ item_weights = <<>>
    /\ seen = {}
    /\ transactions = <<>>
    /\ max_attempts = 0
    /\ attempts = 0
    /\ length = 0
    /\ pick = 0
    /\ chosen = {}
    /\ tx = <<>>
    /\ calls = 0
    /\ warned = FALSE
    /\ out_file = Absent
    /\ exit_code = NotExited

\* lines 92-96: num_tx = int(sys.argv[2]), or the error exit
ParseCount ==
    /\ pc = "parse_count"
    /\ IF count_arg.parses
       THEN /\ num_tx' = count_arg.value
            /\ pc' = "load_items"
            /\ exit_code' = exit_code
       ELSE /\ num_tx' = num_tx
            /\ pc' = "error"
            /\ exit_code' = 1
    /\ UNCHANGED <<item_spec, count_arg, items, clusters, cluster_weights,
                   item_weights, seen, transactions, max_attempts, attempts,
                   length, pick, chosen, tx, calls, warned, out_file>>

\* lines 99-102: items = load_items(item_spec), or the error exit
LoadItems ==
    /\ pc = "load_items"
    /\ items' = load_items(item_spec)
    /\ IF items' = <<>>
       THEN pc' = "error" /\ exit_code' = 1
       ELSE pc' = "build_clusters" /\ exit_code' = exit_code
    /\ UNCHANGED <<item_spec, count_arg, num_tx, clusters, cluster_weights,
                   item_weights, seen, transactions, max_attempts, attempts,
                   length, pick, chosen, tx, calls, warned, out_file>>

\* lines 38-39: "if n < 4: return [], []"
BuildClustersNone ==
    /\ pc = "build_clusters"
    /\ Len(items) < MinClusterUniverse
    /\ clusters' = <<>>
    /\ cluster_weights' = <<>>
    /\ pc' = "init_loop"
    /\ UNCHANGED <<item_spec, count_arg, num_tx, items, item_weights, seen,
                   transactions, max_attempts, attempts, length, pick, chosen,
                   tx, calls, warned, out_file, exit_code>>

\* lines 43-49: one pass of the loop over range(k)
BuildCluster ==
    /\ pc = "build_clusters"
    /\ Len(items) >= MinClusterUniverse
    /\ Len(clusters) < NumClusters(Len(items))
    /\ \E c \in ClusterOutcomes(items) :
          IF c.ok
          THEN pc' = pc /\ clusters' = Append(clusters, c.cluster)
          ELSE pc' = "crash" /\ clusters' = clusters
    /\ UNCHANGED <<item_spec, count_arg, num_tx, items, cluster_weights,
                   item_weights, seen, transactions, max_attempts, attempts,
                   length, pick, chosen, tx, calls, warned, out_file, exit_code>>

\* lines 51-52: the weights, and the return
BuildClustersReturn ==
    /\ pc = "build_clusters"
    /\ Len(items) >= MinClusterUniverse
    /\ Len(clusters) >= NumClusters(Len(items))
    /\ cluster_weights' = Weights(clusters)
    /\ pc' = "init_loop"
    /\ UNCHANGED <<item_spec, count_arg, num_tx, items, clusters, item_weights,
                   seen, transactions, max_attempts, attempts, length, pick,
                   chosen, tx, calls, warned, out_file, exit_code>>

\* lines 108-114
InitLoop ==
    /\ pc = "init_loop"
    /\ item_weights' = [i \in 1..Len(items) |-> i]
    /\ seen' = {}
    /\ transactions' = <<>>
    /\ max_attempts' = num_tx * RetryFactor
    /\ attempts' = 0
    /\ pc' = "loop"
    /\ UNCHANGED <<item_spec, count_arg, num_tx, items, clusters,
                   cluster_weights, length, pick, chosen, tx, calls, warned,
                   out_file, exit_code>>

\* lines 116-117 and 67-70: the loop test; on entry attempts += 1 and the call
\* of generate_transaction up to "chosen = set()"
LoopEnter ==
    /\ pc = "loop"
    /\ LoopCondition
    /\ attempts' = attempts + 1
    /\ \E len \in choose_length(Len(items)) : length' = len
    /\ chosen' = {}
    /\ pick' = 0
    /\ pc' = "seed"
    /\ UNCHANGED <<item_spec, count_arg, num_tx, items, clusters,
                   cluster_weights, item_weights, seen, transactions,
                   max_attempts, tx, calls, warned, out_file, exit_code>>

\* lines 71-76: the cluster seed
ClusterSeed ==
    /\ pc = "seed"
    /\ \E o \in SeedOutcomes(clusters, cluster_weights, length) :
          /\ pick' = o.pick
          /\ chosen' = chosen \cup o.chosen
          /\ pc' = IF o.ok THEN "fill" ELSE "crash"
    /\ UNCHANGED <<item_spec, count_arg, num_tx, items, clusters,
                   cluster_weights, item_weights, seen, transactions,
                   max_attempts, attempts, length, tx, calls, warned, out_file,
                   exit_code>>

\* lines 78-80: one pass of "while len(chosen) < length"
FillDraw ==
    /\ pc = "fill"
    /\ Cardinality(chosen) < length
    /\ IF ChoicesOk(items, item_weights)
       THEN \E i \in Choices(items, item_weights) :
               chosen' = chosen \cup {items[i]} /\ pc' = pc
       ELSE chosen' = chosen /\ pc' = "crash"
    /\ UNCHANGED <<item_spec, count_arg, num_tx, items, clusters,
                   cluster_weights, item_weights, seen, transactions,
                   max_attempts, attempts, length, pick, tx, calls, warned,
                   out_file, exit_code>>

\* lines 83 and 118-123: the return of generate_transaction and the rest of
\* the loop body
ReturnTx ==
    /\ pc = "fill"
    /\ ~(Cardinality(chosen) < length)
    /\ tx' = OrderedBy(items, chosen)
    /\ calls' = calls + 1
    /\ IF IsDuplicate(tx', seen)
       THEN seen' = seen /\ transactions' = transactions
       ELSE seen' = seen \cup {tx'} /\ transactions' = Append(transactions, tx')
    /\ pc' = "loop"
    /\ UNCHANGED <<item_spec, count_arg, num_tx, items, clusters,
                   cluster_weights, item_weights, max_attempts, attempts,
                   length, pick, chosen, warned, out_file, exit_code>>

\* lines 125-132: the loop is left; the warning, the file, the message
Finish ==
    /\ pc = "loop"
    /\ ~LoopCondition
    /\ warned' = Shortfall
    /\ out_file' = Lines(transactions)
    /\ exit_code' = 0
    /\ pc' = "done"
    /\ UNCHANGED <<item_spec, count_arg, num_tx, items, clusters,
                   cluster_weights, item_weights, seen, transactions,
                   max_attempts, attempts, length, pick, chosen, tx, calls>>

Next ==
    \/ ParseCount
    \/ LoadItems
    \/ BuildClustersNone
    \/ BuildCluster
    \/ BuildClustersReturn
    \/ InitLoop
    \/ LoopEnter
    \/ ClusterSeed
    \/ FillDraw
    \/ ReturnTx
    \/ Finish

Spec == Init /\ [][Next]_vars

\* The run keeps executing, and a weighted draw over positive weights does not
\* avoid an item forever: a step that changes the state is eventually taken.
FairSpec == Spec /\ WF_vars(Next)

-----------------------------------------------------------------------------
(* Properties *)

AfterBuild == pc \in {"init_loop", "loop", "seed", "fill", "done"}

NoRepeat(t) == \A i, j \in 1..Len(t) : i # j => t[i] # t[j]

\* t[i..] can be read off its[j..] from left to right
RECURSIVE EmbedsFrom(_, _, _, _)
EmbedsFrom(t, i, its, j) ==
    IF i > Len(t) THEN TRUE
    ELSE IF j > Len(its) THEN FALSE
    ELSE IF t[i] = its[j] THEN EmbedsFrom(t, i + 1, its, j + 1)
    ELSE EmbedsFrom(t, i, its, j + 1)

IsSubsequence(t, its) == NoRepeat(t) /\ EmbedsFrom(t, 1, its, 1)

\* the item spec holds delimiters only
NoTokens(spec) == \A i \in 1..Len(spec) : spec[i] \in {",", " "}

Clamp(v, lo, hi) == IF v < lo THEN lo ELSE IF v > hi THEN hi ELSE v

\* C1: in every state of the run the accepted transactions are pairwise
\* different as tuples, and so are the lines of the output file.
C1_NoDuplicateTransactions ==
    /\ NoRepeat(transactions)
    /\ pc = "done" => NoRepeat(out_file)

\* a duplicate was generated and rejected, and the file was written
C1_Witness ==
    pc = "done" /\ calls >= 2 /\ Len(transactions) = 1 /\ Len(out_file) = 1

\* C2: from the point where the universe is loaded and the count parsed, the
\* run makes at most 30 * N calls of generate_transaction and reaches the step
\* that writes the output file.
C2_RunTerminates ==
    /\ [](calls <= Max(0, 30 * num_tx))
    /\ (pc = "build_clusters") ~> (pc = "done")

\* C3: every transaction generate_transaction returned, every accepted
\* transaction and every line written is a subsequence of the universe: only
\* universe items, none twice, in universe order.
C3_TransactionsAreSubsequences ==
    /\ calls > 0 => IsSubsequence(tx, items)
    /\ \A i \in 1..Len(transactions) : IsSubsequence(transactions[i], items)
    /\ pc = "done" => \A i \in 1..Len(out_file) : IsSubsequence(Split(out_file[i]), items)

\* a cluster-seeded transaction that is a proper part of the universe and does
\* not start with the first universe item
C3_Witness ==
    /\ pc = "done" /\ Len(items) = 6 /\ pick >= 2
    /\ Len(tx) = 4 /\ tx[1] # items[1] /\ Len(out_file) = 1

\* C4: for a universe of 1 to 5 items the target length never exceeds the
\* universe size and every returned transaction holds exactly all its items.
C4_LengthIsUniverseSize ==
    (Len(items) >= 1 /\ Len(items) <= 5) =>
        /\ pc \in {"seed", "fill"} => length <= Len(items)
        /\ calls > 0 => Len(tx) = Len(items)

\* C5: with a universe of 2 to 5 items and N >= 2, the first attempt is
\* accepted and is the whole universe, every later one is rejected, the run
\* ends after exactly 30 * N attempts with one line written and the warning;
\* a universe of 3 items gets no clusters.
C5_SingleTransactionShortfall ==
    /\ Len(items) = 3 => clusters = <<>> /\ cluster_weights = <<>>
    /\ (Len(items) >= 2 /\ Len(items) <= 5 /\ num_tx >= 2) =>
          /\ calls >= 1 => transactions = <<items>> /\ tx = items
          /\ pc = "loop" => calls = attempts
          /\ pc = "done" =>
                /\ attempts = 30 * num_tx
                /\ calls = attempts
                /\ Len(out_file) = 1
                /\ Split(out_file[1]) = items
                /\ warned

\* universe "a b c" (as c b a), count 2: 60 attempts, one line, the warning
C5_Witness ==
    /\ pc = "done" /\ Len(items) = 3 /\ num_tx = 2
    /\ attempts = 60 /\ warned /\ Len(out_file) = 1

\* C6 as stated: for every parsed count N, negative ones included, at most N
\* transactions are written, the warning is printed exactly when fewer than N
\* are, and the file is written either way.
C6_AtMostRequested ==
    pc = "done" =>
        /\ out_file # Absent
        /\ Len(out_file) <= num_tx
        /\ warned <=> (Len(out_file) < num_tx)

\* C6 as amended: at most max(N, 0) transactions are written (none when
\* N <= 0), the warning is printed exactly when fewer than N are, and the
\* file is written either way, and only by a run that got through the loop.
C6_AtMostRequestedOrNone ==
    /\ pc = "done" =>
          /\ out_file # Absent
          /\ Len(out_file) <= Max(num_tx, 0)
          /\ warned <=> (Len(out_file) < num_tx)
    /\ pc # "done" => out_file = Absent /\ ~warned

\* a negative count: an empty file and no warning
C6_Witness ==
    pc = "done" /\ num_tx < 0 /\ out_file = <<>> /\ ~warned /\ items # <<>>

\* C7: with a count int() rejects or an item spec without tokens the run can
\* only be before the error or in it: exit code 1, no cluster built, no
\* transaction synthesized, no output file.
C7_InputErrorsAbortEarly ==
    (~count_arg.parses \/ NoTokens(item_spec)) =>
        /\ pc \in {"parse_count", "load_items", "error"}
        /\ pc = "load_items" => count_arg.parses
        /\ (pc = "error") <=> (exit_code = 1)
        /\ exit_code \in {NotExited, 1}
        /\ clusters = <<>> /\ cluster_weights = <<>>
        /\ attempts = 0 /\ calls = 0 /\ chosen = {} /\ transactions = <<>>
        /\ out_file = Absent

\* a parsed count with an item spec of delimiters only, ended in the error
C7_Witness ==
    /\ pc = "error" /\ exit_code = 1
    /\ count_arg.parses /\ NoTokens(item_spec) /\ Len(item_spec) > 0

\* the pick count of the cluster seed for every cluster size and target length
C9_PickBound ==
    \A len \in 2..20 : \A sz \in MinClusterSize..MaxClusterSize :
        /\ MaxPick(1..sz, len) <= Max(2, len \div 2)
        /\ Max(2, len \div 2) <= len

\* the target length for every universe size up to MaxProbeN
C9_LengthRange ==
    \A n \in 2..MaxProbeN : \A len \in choose_length(n) :
        IF n <= 5 THEN len = n ELSE 3 <= len /\ len <= Min(20, n)

\* C9: for a universe of 2 or more items the cluster seed picks at most
\* max(2, length // 2) <= length items, so the fill loop is entered with at
\* most length items and the returned transaction has exactly the target
\* length; for more than 5 items that length is between 3 and min(20, n).
C9_SeedWithinLength ==
    /\ C9_PickBound
    /\ C9_LengthRange
    /\ Len(items) >= 2 =>
          /\ pc = "fill" =>
                /\ pick <= Max(2, length \div 2)
                /\ Max(2, length \div 2) <= length
                /\ Cardinality(chosen) <= length
                /\ pick <= Cardinality(chosen)
          /\ (pc \in {"loop", "done"} /\ calls > 0) => Len(tx) = length
          /\ (Len(items) > 5 /\ pc \in {"seed", "fill"}) =>
                3 <= length /\ length <= Min(20, Len(items))

\* a universe of 6 items, target length 6, a seed of 3 items, returned
C9_Witness ==
    pc = "done" /\ Len(items) = 6 /\ length = 6 /\ pick = 3 /\ Len(tx) = 6

\* the shape of the clusters and the draws of build_clusters and of the
\* cluster seed for every universe size up to MaxProbeN
C10_ShapeOfDraws ==
    /\ \A n \in MinClusterUniverse..MaxProbeN :
          /\ NumClusters(n) = Clamp(n \div 5, 3, 10)
          /\ MaxSz(n) = Min(12, n)
          /\ RandintOk(3, MaxSz(n))
          /\ \A sz \in Randint(3, MaxSz(n)) : sz <= n
    /\ \A len \in 2..20 : \A sz \in MinClusterSize..MaxClusterSize :
          /\ RandintOk(MinPick(1..sz), MaxPick(1..sz, len))
          /\ \A p \in Randint(MinPick(1..sz), MaxPick(1..sz, len)) : SampleOk(1..sz, p)

\* C10: no draw raises; once build_clusters has returned there are
\* clamp(n // 5, 3, 10) clusters of 3 to min(12, n) universe items each with
\* as many weights when n >= 4, and no cluster and no weight when n < 4; the
\* weighted choices have a non-empty population and as many weights.
C10_DrawsWellFormed ==
    /\ C10_ShapeOfDraws
    /\ pc # "crash"
    /\ AfterBuild =>
          IF Len(items) < 4
          THEN clusters = <<>> /\ cluster_weights = <<>>
          ELSE /\ Len(clusters) = Clamp(Len(items) \div 5, 3, 10)
               /\ Len(cluster_weights) = Len(clusters)
               /\ \A i \in 1..Len(clusters) :
                     /\ clusters[i] \subseteq ItemSet(items)
                     /\ Cardinality(clusters[i]) >= 3
                     /\ Cardinality(clusters[i]) <= Min(12, Len(items))
    /\ (pc = "seed" /\ clusters # <<>>) =>
          /\ Len(cluster_weights) = Len(clusters)
          /\ \A i \in 1..Len(clusters) :
                \A p \in MinPick(clusters[i])..MaxPick(clusters[i], length) :
                    p <= Cardinality(clusters[i])
    /\ pc \in {"seed", "fill"} =>
          Len(items) > 0 /\ Len(item_weights) = Len(items)

\* three clusters of 6 universe items, one of the smallest and one of the
\* largest size, and a seed of 3 items drawn from one of them
C10_Witness ==
    /\ pc = "fill" /\ Len(items) = 6 /\ Len(clusters) = 3 /\ pick = 3
    /\ \E i \in 1..Len(clusters) : Cardinality(clusters[i]) = 3
    /\ \E i \in 1..Len(clusters) : Cardinality(clusters[i]) = 6

====
